---- MODULE Spec2Model ----
(***************************************************************************)
(* The LIDAR display component of RotorHazardLidar: the polling fetch      *)
(* effect, the held scan/threshold/error state and the canvas render       *)
(* effect, for each variant of LidarVisualization found in the repository. *)
(*                                                                         *)
(*   "static" = src/static/lidar-viz.js     "p000" = src/unnamed/part_000  *)
(*   "p001"   = src/unnamed/part_001        "p003" = src/unnamed/part_003  *)
(*   "p004"   = src/unnamed/part_004        "test" = src/unnamed/part_002  *)
(*   "ws"     = src/lidar-viz.js (fed by WebSocket messages, not by polling)*)
(***************************************************************************)
EXTENDS Integers, Sequences, FiniteSets, TLC

VARIABLES
    variant,      \* which source file's component is running
    batched,      \* whether the runtime batches the setter calls of one completion
    phase,        \* "created" | "mounted" | "unmounted"
    scanData,     \* useState([])
    threshold,    \* useState(1000) / useState(100)
    error,        \* useState(null)
    data,         \* TestComponent: useState(null)
    interval,     \* the setInterval handle: "none" | "armed" | "cleared"
    inflight,     \* ids of the requests whose fetch has not settled yet
    issued,       \* number of requests issued so far (ids are 1..issued)
    ticks,        \* number of times the interval has fired
    canvas,       \* what the mounted canvas element shows: "none" or a frame
    calls,        \* the state-setter calls executed by the last step
    redraws,      \* the redraws (inputs and frame) performed by the last step
    lastOp,       \* the last step taken
    lastGood,     \* the most recently arrived snapshot response: [id, body], or null
    scanFrom,     \* the body of the response that supplied the held scanData, or null
    sock          \* src/lidar-viz.js: window.socket, the socket in use, the listener

vars == <<variant, batched, phase, scanData, threshold, error, data, interval,
          inflight, issued, ticks, canvas, calls, redraws, lastOp, lastGood, scanFrom,
          sock>>

----------------------------------------------------------------------------
(* Bounds of the exploration *)

MaxRequests == 3
MaxMessages == 3

----------------------------------------------------------------------------
(* JavaScript values.  Every value is a record so that values of different *)
(* JavaScript types can be compared with one another.                       *)

null == [null |-> TRUE]
undefined == [undef |-> TRUE]
NaN == [nan |-> TRUE]
Str(s) == [str |-> s]
Arr(s) == [arr |-> s]
Num(n) == [num |-> n, den |-> 1]

IsNum(v) == "num" \in DOMAIN v
IsArr(v) == "arr" \in DOMAIN v

\* A finite number that need not be an integer: num / den, den a power of ten,
\* kept in lowest such form so that equal numbers are equal values.
RECURSIVE Norm(_)
Norm(v) ==
    IF v.den > 1 /\ v.num % 10 = 0
    THEN Norm([num |-> v.num \div 10, den |-> v.den \div 10])
    ELSE v

\* a division that drops the fraction (Math.floor(v / 10))
Div10_Floor(v) ==
    IF IsNum(v) THEN Num(v.num \div (v.den * 10))
    ELSE IF v = null THEN Num(0)
    ELSE NaN

\* v / 10  (null converts to 0; undefined and NaN give NaN)
Div10(v) ==
    IF IsNum(v) THEN Norm([num |-> v.num, den |-> v.den * 10])
    ELSE IF v = null THEN Num(0)
    ELSE NaN

\* v * k for an integer k
Times(v, k) ==
    IF IsNum(v) THEN Norm([num |-> v.num * k, den |-> v.den])
    ELSE IF v = null THEN Num(0)
    ELSE NaN

\* a < b on numbers: false whenever a side is NaN or undefined
Less(a, b) ==
    /\ IsNum(a)
    /\ IsNum(b)
    /\ a.num * b.den < b.num * a.den

\* ToBoolean(v)
Truthy(v) == v \notin {null, undefined, NaN, Str(""), Num(0)}

\* a || b
Or(a, b) == IF Truthy(a) THEN a ELSE b

----------------------------------------------------------------------------
(* The variants *)

Variants == {"static", "p000", "p001", "p003", "p004", "test"}

\* useState(<initial threshold>)
InitThreshold(v) ==
    IF v \in {"static", "p003"} THEN Num(1000) ELSE Num(100)

\* the effect calls fetchData() itself before arming the interval
FetchesOnMount(v) == v \in {"static", "p003", "test"}

\* the file polls /lidar/data at all (src/lidar-viz.js listens on a socket)
Polls(v) == v # "ws"

\* the file mounts the component with ReactDOM.render (a legacy root renders
\* each setter call made after an await on its own); the files that only
\* export the component leave the kind of root to their importer
LegacyRoot(v) == v \in {"static", "p000", "test"}

\* the file has a render effect drawing on canvasRef.current
HasRenderEffect(v) == v \in {"static", "p000", "p001", "p003", "ws"}

\* the canvas element is part of the rendered output for this error state
CanvasShown(v, er) ==
    CASE v \in {"static", "p003"} -> er = null
      [] v \in {"p000", "p001", "ws"} -> TRUE
      [] OTHER -> FALSE

----------------------------------------------------------------------------
(* What the endpoint can answer: a parsed JSON body, or a failure of        *)
(* fetch() / response.json().                                               *)

PtNear == [angle |-> 5, distance |-> 99, x |-> 9, y |-> 98]
PtBack == [angle |-> 180, distance |-> 50, x |-> 0, y |-> -50]

Scans == {<< >>, <<PtNear>>, <<PtNear, PtBack>>}
RawThresholds == {800, 1000}
ErrorTexts == {"LIDAR not connected"}
FailTexts == {"Failed to fetch"}

SnapshotBody(s, t) == [scan |-> Arr(s), threshold |-> Num(t), error |-> undefined]
ErrorBody(e) == [scan |-> undefined, threshold |-> undefined, error |-> Str(e)]

Snapshots == {[ok |-> TRUE, body |-> SnapshotBody(s, t)] : s \in Scans, t \in RawThresholds}
ErrorPayloads == {[ok |-> TRUE, body |-> ErrorBody(e)] : e \in ErrorTexts}
Failures == {[ok |-> FALSE, message |-> m] : m \in FailTexts}

Responses == Snapshots \cup ErrorPayloads \cup Failures

----------------------------------------------------------------------------
(* fetchData: the setter calls it makes for one settled request, in order   *)

Call(f, a) == [fn |-> f, arg |-> a]

\* catch (err) { setError(...) }
OnFailure(v, m) ==
    IF v \in {"static", "p003", "test"}
    THEN <<Call("setError", Str("Failed to fetch LIDAR data: " \o m))>>
    ELSE <<Call("setError", Str("Failed to fetch LIDAR data"))>>

\* the statements that deliver the payload as a snapshot
Deliver(v, body) ==
    IF v \in {"static", "p003"}
    THEN <<Call("setScanData", body.scan), Call("setThreshold", body.threshold)>>
    ELSE <<Call("setScanData", Or(body.scan, Arr(<< >>))),
           Call("setThreshold", Div10(body.threshold))>>

\* the branch taken when data.error is truthy
OnErrorPayload(v, body) ==
    IF v = "p001"
    THEN <<Call("setError", body.error)>> \o Deliver(v, body)
    ELSE <<Call("setError", body.error)>>

\* the branch taken when data.error is falsy
OnSnapshot(v, body) ==
    IF v \in {"static", "p003"}
    THEN Deliver(v, body)
    ELSE <<Call("setError", null)>> \o Deliver(v, body)

FetchCalls(v, resp) ==
    IF ~resp.ok THEN OnFailure(v, resp.message)
    ELSE IF v = "test" THEN <<Call("setData", resp.body), Call("setError", null)>>
    ELSE IF Truthy(resp.body.error) THEN OnErrorPayload(v, resp.body)
    ELSE OnSnapshot(v, resp.body)

----------------------------------------------------------------------------
(* The render effect: what one run of it leaves on the canvas               *)

NoCanvas == [none |-> TRUE]     \* canvasRef.current is null
BlankCanvas == [blank |-> TRUE] \* a canvas element nothing has drawn on
NoGate == [nogate |-> TRUE]

scale == 2

InZoneColour == "#dc3545"
OutZoneColour == "#0d6efd"
PlainColour == "#3498db"

\* the boundary bearings and the boundary distance taken as in-zone
isInGateArea_Inclusive(point, th) ==
    /\ {"angle", "distance"} \subseteq DOMAIN point
    /\ (point.angle <= 10 \/ point.angle >= 350)
    /\ ~Less(th, Num(point.distance * 10))

\* (point.angle < 10 || point.angle > 350) && point.distance * 10 < threshold
\* (a missing field reads as undefined, and every comparison with it is false)
isInGateArea(point, th) ==
    /\ {"angle", "distance"} \subseteq DOMAIN point
    /\ (point.angle < 10 \/ point.angle > 350)
    /\ Less(Num(point.distance * 10), th)

\* the dot drawn for one point
Dot(v, point, th) ==
    IF v \in {"static", "p003"}
    THEN [x |-> 400 + point.x * scale,
          y |-> 400 - point.y * scale,
          fill |-> IF isInGateArea(point, th) THEN InZoneColour ELSE OutZoneColour]
    ELSE [x |-> 300 + point.x * scale,
          y |-> 300 + point.y * scale,
          fill |-> PlainColour]

\* reading a property of the point throws (the point is null or undefined)
Throws(point) == point \in {null, undefined}

\* ctx.arc gets finite coordinates and adds the dot to the path; with
\* point.x or point.y missing they are NaN and arc() adds nothing
Placed(point) == {"x", "y"} \subseteq DOMAIN point

\* scanData.forEach(point => ...) from the first of pts on: the dots drawn,
\* and whether the callback threw (which ends the loop and the effect)
RECURSIVE DrawDots(_, _, _)
DrawDots(v, pts, th) ==
    IF pts = << >> THEN [dots |-> << >>, threw |-> FALSE]
    ELSE IF Throws(Head(pts)) THEN [dots |-> << >>, threw |-> TRUE]
    ELSE LET rest == DrawDots(v, Tail(pts), th)
         IN IF Placed(Head(pts))
            THEN [rest EXCEPT !.dots = <<Dot(v, Head(pts), th)>> \o @]
            ELSE rest

\* the points loop of the effect; scanData.forEach itself throws when
\* scanData is not an array
DrawScan(v, sd, th) ==
    IF IsArr(sd) THEN DrawDots(v, sd.arr, th) ELSE [dots |-> << >>, threw |-> TRUE]

\* radius of the gate arcs / threshold circle
GateRadius(v, th) ==
    IF v \in {"static", "p003"} THEN Times(Div10(th), scale) ELSE Times(th, scale)

\* the whole surface after the effect has run with (sd, th)
Frame(v, sd, th) ==
    CASE v \in {"static", "p003"} ->
           [bg |-> "#f8f9fa",
            circles |-> [i \in 1..4 |-> 50 * i * scale],
            gate |-> GateRadius(v, th),
            dots |-> DrawScan(v, sd, th).dots,
            threw |-> DrawScan(v, sd, th).threw]
      [] v \in {"p001", "ws"} ->
           [bg |-> "clear",
            circles |-> [i \in 1..6 |-> 50 * i * scale],
            gate |-> GateRadius(v, th),
            dots |-> DrawScan(v, sd, th).dots,
            threw |-> DrawScan(v, sd, th).threw]
      [] OTHER ->
           [bg |-> "clear", circles |-> << >>, gate |-> NoGate, dots |-> << >>,
            threw |-> FALSE]

----------------------------------------------------------------------------
(* The component instance while one completion's setter calls run.          *)
(* st = [sd, th, er, da, shown, pend, log, crashed]: the held state, what   *)
(* the canvas shows, whether a run of the render effect is pending, the     *)
(* redraws done so far, and whether an effect threw (no error boundary      *)
(* encloses the component, so the whole tree is then unmounted).            *)

\* if (!canvas) return;   src/lidar-viz.js: if (!canvas || !scanData.length) return;
ReturnsEarly(v, st) ==
    \/ st.shown = NoCanvas
    \/ v = "ws" /\ IsArr(st.sd) /\ st.sd.arr = << >>

\* run the pending render effect, if any
Flush(v, st) ==
    IF st.crashed \/ ~st.pend \/ ReturnsEarly(v, st)
    THEN [st EXCEPT !.pend = FALSE]
    ELSE [st EXCEPT !.pend = FALSE,
                    !.shown = IF Frame(v, st.sd, st.th).threw THEN NoCanvas
                              ELSE Frame(v, st.sd, st.th),
                    !.crashed = Frame(v, st.sd, st.th).threw,
                    !.log = Append(@, [scan |-> st.sd, threshold |-> st.th,
                                       frame |-> Frame(v, st.sd, st.th)])]

\* the setter stores a value that differs (Object.is) from the held one;
\* a parsed array or object is always a new one
Changes(st, c) ==
    CASE c.fn = "setScanData" -> IsArr(c.arg) \/ c.arg # st.sd
      [] c.fn = "setThreshold" -> c.arg # st.th
      [] c.fn = "setError" -> c.arg # st.er
      [] c.fn = "setData" -> TRUE

Store(st, c) ==
    CASE c.fn = "setScanData" -> [st EXCEPT !.sd = c.arg]
      [] c.fn = "setThreshold" -> [st EXCEPT !.th = c.arg]
      [] c.fn = "setError" -> [st EXCEPT !.er = c.arg]
      [] c.fn = "setData" -> [st EXCEPT !.da = c.arg]

\* commit of a render: the canvas element appears or disappears with the JSX
Commit(v, st, depsChanged) ==
    [st EXCEPT !.shown = IF ~CanvasShown(v, st.er) THEN NoCanvas
                         ELSE IF @ = NoCanvas THEN BlankCanvas ELSE @,
               !.pend = HasRenderEffect(v) /\ depsChanged]

\* one setter call rendered on its own: the effect left pending by the
\* previous render runs first, then the component renders with the new value
ApplyAlone(v, st, c) ==
    IF st.crashed \/ ~Changes(st, c) THEN st
    ELSE Commit(v, Store(Flush(v, st), c), c.fn \in {"setScanData", "setThreshold"})

RECURSIVE RunAlone(_, _, _)
RunAlone(v, st, cs) ==
    IF cs = << >> THEN Flush(v, st)
    ELSE RunAlone(v, ApplyAlone(v, st, Head(cs)), Tail(cs))

RECURSIVE StoreAll(_, _)
StoreAll(st, cs) ==
    IF cs = << >> THEN st ELSE StoreAll(Store(st, Head(cs)), Tail(cs))

RECURSIVE AnyChanges(_, _, _)
AnyChanges(st, cs, fns) ==
    /\ cs # << >>
    /\ \/ Head(cs).fn \in fns /\ Changes(st, Head(cs))
       \/ AnyChanges(Store(st, Head(cs)), Tail(cs), fns)

AllSetters == {"setScanData", "setThreshold", "setError", "setData"}

\* all the setter calls of the completion rendered together
RunBatched(v, st, cs) ==
    IF ~AnyChanges(st, cs, AllSetters) THEN st
    ELSE Flush(v, Commit(v, StoreAll(st, cs),
                         StoreAll(st, cs).sd # st.sd \/ StoreAll(st, cs).th # st.th
                           \/ AnyChanges(st, cs, {"setScanData"})))

Run(v, b, st, cs) == IF b THEN RunBatched(v, st, cs) ELSE RunAlone(v, st, cs)

----------------------------------------------------------------------------
(* The state machine *)

Held == [sd |-> scanData, th |-> threshold, er |-> error, da |-> data,
         shown |-> canvas, pend |-> FALSE, log |-> << >>, crashed |-> FALSE]

\* the response is a payload that fetchData takes for a snapshot
IsSnapshot(v, resp) == resp.ok /\ (v = "test" \/ ~Truthy(resp.body.error))

\* the socket state of a component that has run no socket effect:
\*   win       window.socket is set
\*   used      the socket the effect holds: "none" | "own" (new WebSocket) | "shared"
\*   listening messageHandler is registered on that socket
\*   ownOpen   the socket the component created is open
\*   sharedClosed  the component has called close() on the shared socket
\*   opened    number of window.open calls made
\*   msgs      number of messages that have arrived on the socket in use
NoSock(w) == [win |-> w, used |-> "none", listening |-> FALSE, ownOpen |-> FALSE,
              sharedClosed |-> FALSE, opened |-> 0, msgs |-> 0]

Init ==
    /\ variant \in Variants
    /\ batched \in (IF LegacyRoot(variant) THEN {FALSE} ELSE BOOLEAN)
    /\ phase = "created"
    /\ scanData = Arr(<< >>)
    /\ threshold = InitThreshold(variant)
    /\ error = null
    /\ data = null
    /\ interval = "none"
    /\ inflight = {}
    /\ issued = 0
    /\ ticks = 0
    /\ canvas = NoCanvas
    /\ calls = << >>
    /\ redraws = << >>
    /\ lastOp = [op |-> "init"]
    /\ lastGood = null
    /\ scanFrom = null
    /\ sock = NoSock(FALSE)

\* first render and commit, then both effects run once
Mount ==
    /\ phase = "created"
    /\ phase' = "mounted"
    /\ LET st == Flush(variant, Commit(variant, Held, TRUE))
       IN /\ canvas' = st.shown
          /\ redraws' = st.log
    /\ issued' = IF FetchesOnMount(variant) THEN 1 ELSE 0
    /\ inflight' = IF FetchesOnMount(variant) THEN {1} ELSE {}
    /\ interval' = "armed"
    /\ calls' = << >>
    /\ lastOp' = [op |-> "mount"]
    /\ UNCHANGED <<variant, batched, scanData, threshold, error, data, ticks, lastGood,
                   scanFrom, sock>>

\* a poller that skips its tick while an error is held
Tick_SkipsAfterError ==
    /\ interval = "armed"
    /\ error = null
    /\ issued < MaxRequests
    /\ issued' = issued + 1
    /\ inflight' = inflight \cup {issued + 1}
    /\ ticks' = ticks + 1
    /\ calls' = << >>
    /\ redraws' = << >>
    /\ lastOp' = [op |-> "tick"]
    /\ UNCHANGED <<variant, batched, phase, scanData, threshold, error, data,
                   interval, canvas, lastGood, scanFrom, sock>>

\* the interval fires: fetchData() starts another request
Tick ==
    /\ interval = "armed"
    /\ issued < MaxRequests
    /\ issued' = issued + 1
    /\ inflight' = inflight \cup {issued + 1}
    /\ ticks' = ticks + 1
    /\ calls' = << >>
    /\ redraws' = << >>
    /\ lastOp' = [op |-> "tick"]
    /\ UNCHANGED <<variant, batched, phase, scanData, threshold, error, data,
                   interval, canvas, lastGood, scanFrom, sock>>

\* request r settles with resp and the rest of fetchData runs
Complete(r, resp) ==
    /\ r \in inflight
    /\ inflight' = inflight \ {r}
    /\ calls' = FetchCalls(variant, resp)
    /\ lastOp' = [op |-> "complete", id |-> r, resp |-> resp, phase |-> phase]
    /\ lastGood' = IF IsSnapshot(variant, resp) THEN [id |-> r, body |-> resp.body]
                   ELSE lastGood
    /\ IF phase = "mounted"
       THEN LET st == Run(variant, batched, Held, FetchCalls(variant, resp))
            IN /\ scanData' = st.sd
               /\ threshold' = st.th
               /\ error' = st.er
               /\ data' = st.da
               /\ canvas' = st.shown
               /\ redraws' = st.log
               /\ scanFrom' = IF \E i \in DOMAIN FetchCalls(variant, resp) :
                                    FetchCalls(variant, resp)[i].fn = "setScanData"
                               THEN resp.body ELSE scanFrom
               \* an effect that threw unmounts the tree, which runs the cleanup
               /\ phase' = IF st.crashed THEN "unmounted" ELSE phase
               /\ interval' = IF st.crashed THEN "cleared" ELSE interval
       ELSE \* the setters of an unmounted component store nothing and render nothing
            /\ redraws' = << >>
            /\ UNCHANGED <<scanData, threshold, error, data, canvas, scanFrom,
                           phase, interval>>
    /\ UNCHANGED <<variant, batched, issued, ticks, sock>>

\* the fetch effect's cleanup: clearInterval(interval); the canvas goes with the DOM
Unmount ==
    /\ phase = "mounted"
    /\ phase' = "unmounted"
    /\ interval' = "cleared"
    /\ canvas' = NoCanvas
    /\ calls' = << >>
    /\ redraws' = << >>
    /\ lastOp' = [op |-> "unmount"]
    /\ UNCHANGED <<variant, batched, scanData, threshold, error, data, inflight,
                   issued, ticks, lastGood, scanFrom, sock>>

Next ==
    \/ Mount
    \/ Tick
    \/ \E r \in 1..MaxRequests, resp \in Responses : Complete(r, resp)
    \/ Unmount

Spec == Init /\ [][Next]_vars

\* an armed interval keeps firing, and every fetch settles in the end
FairSpec ==
    /\ Spec
    /\ WF_vars(Tick)
    /\ WF_vars(\E r \in 1..MaxRequests, resp \in Responses : Complete(r, resp))

----------------------------------------------------------------------------
(* The render effect on its own, over a wider range of points and           *)
(* thresholds: the component holds one received point and a received        *)
(* threshold, and the effect scheduled by that render runs.                 *)

ZoneAngles == {0, 1, 5, 9, 10, 11, 90, 170, 179, 180, 181, 190, 349, 350, 351, 355, 359}
ZoneDistances == {0, 1, 49, 50, 79, 80, 81, 99, 100, 101}
ZoneThresholds == {0, 500, 800, 805, 995, 1000, 1005}

\* the offsets x, y are supplied by the endpoint next to angle and distance;
\* they place the dot and play no part in its colour
ZonePoints == {[angle |-> a, distance |-> d, x |-> 0, y |-> 0] :
                 a \in ZoneAngles, d \in ZoneDistances}

InitZone ==
    /\ variant \in {v \in Variants : HasRenderEffect(v)}
    /\ batched = FALSE
    /\ phase = "mounted"
    /\ \E p \in ZonePoints, t \in ZoneThresholds :
         /\ scanFrom = SnapshotBody(<<p>>, t)
         /\ scanData = Deliver(variant, scanFrom)[1].arg
         /\ threshold = Deliver(variant, scanFrom)[2].arg
    /\ error = null
    /\ data = null
    /\ interval = "armed"
    /\ inflight = {}
    /\ issued = 1
    /\ ticks = 0
    /\ canvas = BlankCanvas
    /\ calls = << >>
    /\ redraws = << >>
    /\ lastOp = [op |-> "init"]
    /\ lastGood = [id |-> 1, body |-> scanFrom]
    /\ sock = NoSock(FALSE)

\* useEffect(() => { ...draw... }, [scanData, threshold])
RenderEffect ==
    /\ lastOp.op = "init"
    /\ LET st == Flush(variant, [Held EXCEPT !.pend = TRUE])
       IN /\ canvas' = st.shown
          /\ redraws' = st.log
    /\ lastOp' = [op |-> "render"]
    /\ UNCHANGED <<variant, batched, phase, scanData, threshold, error, data,
                   interval, inflight, issued, ticks, calls, lastGood, scanFrom, sock>>

NextZone == RenderEffect

SpecZone == InitZone /\ [][NextZone]_vars

----------------------------------------------------------------------------
(* src/lidar-viz.js: the component fed by messages on a WebSocket           *)

\* event.data after JSON.parse
\* the parsed event.data of the messages the socket may carry
OpenVizMessage ==
    [type |-> "custom_message",
     content |-> [type |-> "open_lidar_viz", content |-> [url |-> "/lidar"]]]
OtherCustomMessage ==
    [type |-> "custom_message", content |-> [type |-> "race_status"]]
OtherMessage == [type |-> "heartbeat"]
ScanMessage(body) == [type |-> "lidar_scan", body |-> body]

\* a lidar_scan message may lack its threshold
WsBodies == {SnapshotBody(s, t) : s \in Scans, t \in RawThresholds}
              \cup {[scan |-> Arr(<<PtBack>>), threshold |-> undefined, error |-> undefined]}

WsMessages == {OpenVizMessage, OtherCustomMessage, OtherMessage} \cup {ScanMessage(b) : b \in WsBodies}

\* setScanData(data.scan || []); setThreshold(data.threshold || 100);
WsDeliver(body) ==
    <<Call("setScanData", Or(body.scan, Arr(<< >>))),
      Call("setThreshold", Or(body.threshold, Num(100)))>>

\* messageHandler: the setter calls it makes
HandlerCalls(m) ==
    IF m.type = "lidar_scan" THEN WsDeliver(m.body) ELSE << >>

\* a handler that opens the window in the secondary window as well
OpensWindow_Everywhere(m, win) ==
    /\ m.type = "custom_message"
    /\ m.content.type = "open_lidar_viz"

\* messageHandler: whether it calls window.open, given window.socket
OpensWindow(m, win) ==
    /\ m.type = "custom_message"
    /\ m.content.type = "open_lidar_viz"
    /\ ~win

\* const socket = window.socket || new WebSocket(...); addEventListener
Connect(sk) ==
    [sk EXCEPT !.used = IF sk.win THEN "shared" ELSE "own",
               !.ownOpen = ~sk.win,
               !.listening = TRUE]

\* return () => { removeEventListener; if (!window.socket) socket.close(); }
Cleanup(sk) ==
    [sk EXCEPT !.listening = FALSE,
               !.ownOpen = IF ~sk.win /\ sk.used = "own" THEN FALSE ELSE @,
               !.sharedClosed = IF ~sk.win /\ sk.used = "shared" THEN TRUE ELSE @]

\* the socket the effect holds can still deliver a message
SocketOpen(sk) ==
    \/ sk.used = "own" /\ sk.ownOpen
    \/ sk.used = "shared" /\ ~sk.sharedClosed

InitWs ==
    /\ variant = "ws"
    /\ batched \in BOOLEAN
    /\ phase = "created"
    /\ scanData = Arr(<< >>)
    /\ threshold = Num(100)
    /\ error = null
    /\ data = null
    /\ interval = "none"
    /\ inflight = {}
    /\ issued = 0
    /\ ticks = 0
    /\ canvas = NoCanvas
    /\ calls = << >>
    /\ redraws = << >>
    /\ lastOp = [op |-> "init"]
    /\ lastGood = null
    /\ scanFrom = null
    /\ sock \in {NoSock(w) : w \in BOOLEAN}

\* first render and commit, then the socket effect and the render effect run
MountWs ==
    /\ phase = "created"
    /\ phase' = "mounted"
    /\ LET st == Flush(variant, Commit(variant, Held, TRUE))
       IN /\ canvas' = st.shown
          /\ redraws' = st.log
    /\ sock' = Connect(sock)
    /\ calls' = << >>
    /\ lastOp' = [op |-> "mount"]
    /\ UNCHANGED <<variant, batched, scanData, threshold, error, data, interval,
                   inflight, issued, ticks, lastGood, scanFrom>>

\* a message event on the socket: messageHandler runs if it is still registered
Message(m) ==
    /\ SocketOpen(sock)
    /\ sock.msgs < MaxMessages
    /\ lastOp' = [op |-> "message", msg |-> m, handled |-> sock.listening,
                  win |-> sock.win]
    /\ IF sock.listening
       THEN LET st == Run(variant, batched, Held, HandlerCalls(m))
                opens == IF OpensWindow(m, sock.win) THEN 1 ELSE 0
                sk == [sock EXCEPT !.msgs = @ + 1, !.opened = @ + opens]
            IN /\ calls' = HandlerCalls(m)
               /\ scanData' = st.sd
               /\ threshold' = st.th
               /\ canvas' = st.shown
               /\ redraws' = st.log
               /\ scanFrom' = IF m.type = "lidar_scan" THEN m.body ELSE scanFrom
               /\ lastGood' = IF m.type = "lidar_scan"
                              THEN [id |-> sock.msgs + 1, body |-> m.body] ELSE lastGood
               /\ phase' = IF st.crashed THEN "unmounted" ELSE phase
               /\ sock' = IF st.crashed THEN Cleanup(sk) ELSE sk
       ELSE /\ calls' = << >>
            /\ redraws' = << >>
            /\ sock' = [sock EXCEPT !.msgs = @ + 1]
            /\ UNCHANGED <<scanData, threshold, canvas, scanFrom, lastGood, phase>>
    /\ UNCHANGED <<variant, batched, error, data, interval, inflight, issued, ticks>>

\* the page sets or clears the global window.socket
SetWindowSocket(w) ==
    /\ sock.win # w
    /\ sock' = [sock EXCEPT !.win = w]
    /\ calls' = << >>
    /\ redraws' = << >>
    /\ lastOp' = [op |-> "window.socket", win |-> w]
    /\ UNCHANGED <<variant, batched, phase, scanData, threshold, error, data, interval,
                   inflight, issued, ticks, canvas, lastGood, scanFrom>>

\* the socket effect's cleanup runs; the canvas goes with the DOM
UnmountWs ==
    /\ phase = "mounted"
    /\ phase' = "unmounted"
    /\ sock' = Cleanup(sock)
    /\ canvas' = NoCanvas
    /\ calls' = << >>
    /\ redraws' = << >>
    /\ lastOp' = [op |-> "unmount", before |-> sock]
    /\ UNCHANGED <<variant, batched, scanData, threshold, error, data, interval,
                   inflight, issued, ticks, lastGood, scanFrom>>

NextWs ==
    \/ MountWs
    \/ \E m \in WsMessages : Message(m)
    \/ \E w \in BOOLEAN : SetWindowSocket(w)
    \/ UnmountWs

SpecWs == InitWs /\ [][NextWs]_vars

----------------------------------------------------------------------------
(* The polling components against an endpoint that may answer any JSON:     *)
(* scans with malformed entries, and a body with none of the fields.        *)

PtPartial == [angle |-> 5]      \* a point record without distance, x and y

AnyScans == {<<PtNear>>, <<PtNear, PtPartial, PtBack>>, <<PtNear, null, PtBack>>}

EmptyBody == [scan |-> undefined, threshold |-> undefined, error |-> undefined]

AnyResponses ==
    {[ok |-> TRUE, body |-> SnapshotBody(sc, 1000)] : sc \in AnyScans}
      \cup {[ok |-> TRUE, body |-> EmptyBody]}
      \cup ErrorPayloads \cup Failures

NextAny ==
    \/ Mount
    \/ Tick
    \/ \E r \in 1..MaxRequests, resp \in AnyResponses : Complete(r, resp)
    \/ Unmount

SpecAny == Init /\ [][NextAny]_vars

----------------------------------------------------------------------------
(* Properties *)

\* the calls of one completion deliver the payload as held data
Delivers(cs) ==
    \E i \in DOMAIN cs : cs[i].fn \in {"setScanData", "setThreshold", "setData"}

\* the calls of one completion set an error message
Reports(cs) ==
    \E i \in DOMAIN cs : cs[i].fn = "setError" /\ cs[i].arg # null

Completed == lastOp.op = "complete"
CompletedMounted == Completed /\ lastOp.phase = "mounted"
CompletedLate == Completed /\ lastOp.phase = "unmounted"

\* C1: once the component is unmounted, a request that completes afterwards
\* executes no setScanData / setThreshold / setError call and causes no redraw.
C1_StopIsTotal ==
    phase = "unmounted" => (calls = << >> /\ redraws = << >>)

\* the part of C1 that the code does keep: no redraw after teardown, and the
\* held state is not changed by a late completion
C1_NoRedrawAfterStop ==
    phase = "unmounted" => (redraws = << >> /\ canvas = NoCanvas)

\* C2: every completed request either delivers a snapshot or reports an
\* error, never both and never neither.
C2_ExactlyOneOutcome ==
    Completed => (Delivers(calls) # Reports(calls))

\* C3: once a snapshot has been delivered, a failed fetch (error payload or
\* transport failure) leaves the held points and threshold as they were.
C3_ErrorKeepsData ==
    [][(lastOp'.op = "complete" /\ ~IsSnapshot(variant, lastOp'.resp) /\ lastGood # null)
         => (scanData' = scanData /\ threshold' = threshold)]_vars

\* C4: immediately after a successful fetch completes, no error message is held.
C4_SuccessClearsError ==
    (CompletedMounted /\ IsSnapshot(variant, lastOp.resp)) => error = null

\* C5: the first request is issued on activation, before any interval has
\* elapsed, and one more per interval after that.
C5_FirstRequestImmediately ==
    phase = "mounted" => issued = ticks + 1

\* the claim's own statement of gate-zone membership, on the raw threshold
\* th (a number num/den) and a distance in tenths of its unit
InZone(point, th) ==
    /\ point.distance * 10 * th.den < th.num
    /\ (point.angle < 10 \/ point.angle > 350)

\* the threshold in the unit of the received payload
RawOf(v, th) == IF v \in {"static", "p003"} THEN th ELSE Times(th, 10)

Rendered == lastOp.op = "render"

DeliveredScan(v, body) == Deliver(v, body)[1].arg
DeliveredThreshold(v, body) == Deliver(v, body)[2].arg

\* C7: a payload with an `error` field becomes the held error message,
\* verbatim, and is not delivered as a snapshot; a transport failure is
\* caught and becomes an error message.
C7_ErrorPayloadSurfaced ==
    CompletedMounted =>
        /\ (lastOp.resp.ok /\ Truthy(lastOp.resp.body.error)) =>
              (error = lastOp.resp.body.error /\ ~Delivers(calls))
        /\ ~lastOp.resp.ok => (Reports(calls) /\ error # null)

\* C8: after any completion, the held points and threshold are those of the
\* most recently arrived successful response, and the canvas shows the
\* redraw of exactly that snapshot.
C8_LatestArrivedWins ==
    (CompletedMounted /\ variant # "test" /\ lastGood # null) =>
        /\ scanData = DeliveredScan(variant, lastGood.body)
        /\ threshold = DeliveredThreshold(variant, lastGood.body)
        /\ HasRenderEffect(variant) => canvas = Frame(variant, scanData, threshold)

\* several requests are in flight and they complete out of issue order
C8_OutOfOrder ==
    /\ CompletedMounted
    /\ IsSnapshot(variant, lastOp.resp)
    /\ \E r \in 1..issued : r > lastOp.id /\ r \notin inflight
    /\ inflight # {}

\* C10: every redraw uses points and a threshold that come from the same
\* response, or both the initial values.
C10_NoStaleThreshold ==
    \A i \in DOMAIN redraws :
        /\ redraws[i].scan = scanData
        /\ redraws[i].threshold =
              IF scanFrom = null THEN InitThreshold(variant)
              ELSE DeliveredThreshold(variant, scanFrom)

\* C9: while the component is mounted the interval stays armed whatever
\* failures have occurred, so that with an error held the next request is
\* always issued (up to the bound of the exploration, or until unmount), and
\* a successful response that arrives while an error is held is processed
\* into the held state.
C9_FailureDoesNotStopPolling ==
    /\ \A n \in 0..(MaxRequests - 1) :
          (phase = "mounted" /\ error # null /\ issued = n)
             ~> (issued > n \/ phase = "unmounted")
    /\ [](phase = "mounted" =>
            /\ interval = "armed"
            /\ issued < MaxRequests => ENABLED Tick)
    /\ [][(/\ lastOp'.op = "complete"
           /\ lastOp'.phase = "mounted"
           /\ error # null
           /\ IsSnapshot(variant, lastOp'.resp))
          => IF variant = "test"
             THEN data' = lastOp'.resp.body
             ELSE /\ scanData' = DeliveredScan(variant, lastOp'.resp.body)
                  /\ threshold' = DeliveredThreshold(variant, lastOp'.resp.body)]_vars

\* a tick has issued a new request while the error of a failed fetch is held
C9_TickAfterFailure ==
    /\ lastOp.op = "tick"
    /\ phase = "mounted"
    /\ error # null
    /\ issued \in inflight

\* C11: whenever the component is mounted with a canvas, the canvas shows
\* exactly what the effect body draws for the held points and threshold, with
\* nothing of an earlier snapshot; with no points held that is the background
\* and grid alone, and no redraw has thrown.
C11_FullRedraw ==
    (phase = "mounted" /\ HasRenderEffect(variant) /\ canvas # NoCanvas) =>
        /\ canvas = Frame(variant, scanData, threshold)
        /\ ~Frame(variant, scanData, threshold).threw
        /\ scanData = Arr(<< >>) => canvas.dots = << >>

\* the variant draws a gate at all (part_000 leaves the drawing code out)
DrawsGate(v) == v \in {"static", "p001", "p003", "ws"}

\* C13: in every variant, the gate drawn for a received raw threshold has
\* radius (raw threshold / 10) * scale.
C13_NormalisedOnce ==
    (/\ phase = "mounted"
     /\ DrawsGate(variant)
     /\ redraws # << >>
     /\ scanFrom # null
     /\ IsNum(scanFrom.threshold))
    => canvas.gate = Times(Div10(scanFrom.threshold), scale)

\* C16: an open_lidar_viz message makes exactly one window.open call when
\* the component is mounted and window.socket is unset, and none otherwise;
\* it never changes the held scan data or threshold; after unmount a message
\* makes no call and changes nothing.
C16_OpensOnlyInPrimary ==
    /\ [](sock.listening <=> phase = "mounted")
    /\ [][(lastOp'.op = "message" /\ lastOp'.msg = OpenVizMessage) =>
            /\ sock'.opened = sock.opened
                 + (IF phase = "mounted" /\ ~sock.win THEN 1 ELSE 0)
            /\ scanData' = scanData
            /\ threshold' = threshold]_vars
    /\ [][(lastOp'.op = "message" /\ phase = "unmounted") =>
            /\ calls' = << >>
            /\ redraws' = << >>
            /\ sock'.opened = sock.opened
            /\ scanData' = scanData
            /\ threshold' = threshold]_vars

\* the primary window has opened the display window on such a message
C16_Opened ==
    /\ lastOp.op = "message"
    /\ lastOp.msg = OpenVizMessage
    /\ lastOp.handled
    /\ ~lastOp.win
    /\ sock.opened = 1
    /\ scanData # Arr(<< >>)

\* C17: after unmount the handler is removed, a socket the component created
\* is closed, and the shared window.socket has not been closed by it.
C17_SocketOwnership ==
    lastOp.op = "unmount" =>
        /\ ~sock.listening
        /\ lastOp.before.used = "own" => ~sock.ownOpen
        /\ ~sock.sharedClosed

\* C12: a point classifies the same against the normalised threshold (raw
\* threshold / 10, compared with the distance) as on raw-scaled values (the
\* distance * 10 compared with the raw threshold); a raw threshold of 1000
\* is held as 100 by the variants that normalise on receipt.
C12_NormalisationRoundTrip ==
    Rendered =>
        \A i \in DOMAIN scanData.arr :
            LET p == scanData.arr[i]
                raw == scanFrom.threshold
                cone == p.angle < 10 \/ p.angle > 350
            IN /\ variant \in {"static", "p003"} =>
                    ((canvas.dots[i].fill = InZoneColour)
                       <=> (cone /\ Less(Num(p.distance), Div10(threshold))))
               /\ variant \in {"p000", "p001"} =>
                    /\ isInGateArea(p, raw) <=> (cone /\ Less(Num(p.distance), threshold))
                    /\ raw = Num(1000) => threshold = Num(100)

\* a raw threshold that is no multiple of ten, and a distance between its
\* floor and its exact tenth
C12_Witness ==
    /\ Rendered
    /\ variant = "static"
    /\ threshold = Num(1005)
    /\ scanData.arr[1].angle = 5
    /\ scanData.arr[1].distance = 100
    /\ canvas.dots[1].fill = InZoneColour

\* C14: while an error message is held, the canvas is still presented and
\* shows the points of the last good snapshot.
C14_SnapshotStaysVisible ==
    (/\ phase = "mounted"
     /\ variant \in {"static", "p001", "p003"}
     /\ error # null
     /\ lastGood # null)
    => /\ canvas # NoCanvas
       /\ canvas # BlankCanvas
       /\ canvas.dots = Frame(variant, DeliveredScan(variant, lastGood.body),
                              DeliveredThreshold(variant, lastGood.body)).dots

\* a point record with every field the drawing code reads
WellFormed(point) == {"angle", "distance", "x", "y"} \subseteq DOMAIN point

\* the dots of the well-formed points of pts, in order
RECURSIVE ValidDots(_, _, _)
ValidDots(v, pts, th) ==
    IF pts = << >> THEN << >>
    ELSE IF WellFormed(Head(pts))
         THEN <<Dot(v, Head(pts), th)>> \o ValidDots(v, Tail(pts), th)
         ELSE ValidDots(v, Tail(pts), th)

\* C15: a redraw of a scan with malformed entries does not abort and draws
\* every well-formed point of the scan.
C15_MalformedPointSkipped ==
    \A i \in DOMAIN redraws :
        (variant \in {"static", "p001", "p003"} /\ IsArr(redraws[i].scan)) =>
            /\ ~redraws[i].frame.threw
            /\ redraws[i].frame.dots =
                  ValidDots(variant, redraws[i].scan.arr, redraws[i].threshold)

\* C18: the held scan data is an array in every reachable state.
C18_ScanDataIsSequence ==
    IsArr(scanData)

====
